---- MODULE Spec2Model ----
(***************************************************************************)
(* cache-up: an in-process memoization cache (src/src/lib.rs).             *)
(*                                                                         *)
(* CacheUp owns a HashMap from key to (value, CacheContext).  A call of    *)
(* execute / execute_with_option looks the key up, runs the entry's bound  *)
(* policies on a hit (refreshing the value at the first one that returns   *)
(* true) or inserts a fresh entry on a miss, and returns a reference to    *)
(* the stored pair.                                                        *)
(*                                                                         *)
(* Time is counted in whole seconds.  Utc::now() is the variable now; the  *)
(* producer f() may take time, so the clock read after it (lines 96, 103)  *)
(* may be later than the one a max_age policy read before it (line 61).    *)
(***************************************************************************)
EXTENDS Integers, Sequences, FiniteSets, TLC

VARIABLES
    store,      \* CacheUp.store: key -> <<value, context>>, defined on the keys present
    now,        \* the wall clock, what Utc::now() returns
    last,       \* the most recent call: its arguments, what it did and what it returned
    origin,     \* per present key: the call that created the entry, and whether a
                \* producer has run for the key since
    shared      \* the callers that share the store: who holds it, the order of
                \* their calls, and each caller's call and what it returned

vars == <<store, now, last, origin, shared>>

----------------------------------------------------------------------------
(* Bounds and input sets                                                   *)

\* The clock stops advancing at MaxTime.
MaxTime == 1

\* The longest a producer call takes, in seconds.
MaxProducerTime == 1

\* impl Key for i64: the keys the callers use.
Keys == {1, 2}

\* The key of the callers that bound an entry's age.
AgeKeys == {1}

\* impl Value for i64: a producer || v is identified with the value v it returns.
Values == {4, 10}

\* The key of the callers that bind several policies to an entry.
PolicyKeys == {1}

\* An age no entry of the model reaches.
LargeAge == MaxTime + 1

----------------------------------------------------------------------------
(* Policies: Box<dyn Fn(&K, &V, &CacheContext<K, V>) -> bool>              *)

\* |_, _, _| true
AlwaysTrue == [kind |-> "always_true", arg |-> 0]

\* |_, _, _| false
AlwaysFalse == [kind |-> "always_false", arg |-> 0]

\* move |_, _, ctx| Self::_max_age(max_age, Utc::now(), ctx)
MaxAgePolicy(max_age) == [kind |-> "max_age", arg |-> max_age]

\* CacheOption::new
CacheOption_new == [policies |-> <<>>]

\* CacheOption::add_policy
add_policy(self, policy) == [policies |-> Append(self.policies, policy)]

\* CacheOption::max_age
max_age(self, age) == add_policy(self, MaxAgePolicy(age))

\* CacheOption::_max_age
_max_age(age, t, context) ==
    LET updated_at == context.updated_at
        diff_updated == t - updated_at
    IN  diff_updated < age

\* A policy call returning the opposite of what the policy decides.
policy_call_negated(policy, key, value, context, t) ==
    CASE policy.kind = "always_true" -> FALSE
      [] policy.kind = "always_false" -> TRUE
      [] policy.kind = "max_age" -> ~_max_age(policy.arg, t, context)

\* One call policy(&key, &item.0, &item.1); t is what Utc::now() returns inside it.
policy_call(policy, key, value, context, t) ==
    CASE policy.kind = "always_true" -> TRUE
      [] policy.kind = "always_false" -> FALSE
      [] policy.kind = "max_age" -> _max_age(policy.arg, t, context)

\* The option sets the callers build.
Options ==
    { CacheOption_new,
      add_policy(CacheOption_new, AlwaysTrue),
      add_policy(CacheOption_new, AlwaysFalse),
      add_policy(add_policy(CacheOption_new, AlwaysFalse), AlwaysTrue) }

\* The option sets of the callers that bound an entry's age.
AgeOptions ==
    { CacheOption_new,
      max_age(CacheOption_new, 0),
      max_age(CacheOption_new, 1),
      max_age(CacheOption_new, LargeAge) }

\* The option sets of the callers that bind several policies to an entry.
PolicyOptions ==
    { add_policy(add_policy(CacheOption_new, AlwaysFalse), AlwaysFalse),
      add_policy(add_policy(CacheOption_new, AlwaysFalse), AlwaysTrue),
      add_policy(add_policy(CacheOption_new, AlwaysTrue), AlwaysFalse),
      add_policy(add_policy(CacheOption_new, AlwaysTrue), AlwaysTrue),
      add_policy(add_policy(add_policy(CacheOption_new, AlwaysFalse), AlwaysTrue),
                 AlwaysTrue) }

----------------------------------------------------------------------------
(* CacheUp                                                                 *)

\* The loop without its break: it goes on evaluating after a policy returned true.
RECURSIVE policy_loop_no_break(_, _, _, _, _)
policy_loop_no_break(policies, i, key, item, t) ==
    IF i > Len(policies) THEN <<>>
    ELSE LET r == policy_call(policies[i], key, item[1], item[2], t)
             e == [policy |-> policies[i], key |-> key, value |-> item[1],
                   updated_at |-> item[2].updated_at, at |-> t, result |-> r]
         IN  <<e>> \o policy_loop_no_break(policies, i + 1, key, item, t)

\* What the loop of and_modify evaluates: the policies from position i on, in
\* order, up to and including the first that returns true.  Each evaluation is
\* logged with the arguments it received, the clock it saw and its result.
RECURSIVE policy_loop(_, _, _, _, _)
policy_loop(policies, i, key, item, t) ==
    IF i > Len(policies) THEN <<>>
    ELSE LET r == policy_call(policies[i], key, item[1], item[2], t)
             e == [policy |-> policies[i], key |-> key, value |-> item[1],
                   updated_at |-> item[2].updated_at, at |-> t, result |-> r]
         IN  IF r THEN <<e>>
             ELSE <<e>> \o policy_loop(policies, i + 1, key, item, t)

\* A test that takes any evaluation for a policy that returned true.
Fired_nonempty(evaluated) == evaluated # <<>>

\* Did the loop end on a policy that returned true?
Fired(evaluated) == evaluated # <<>> /\ evaluated[Len(evaluated)].result

\* and_modify refreshing on every hit, whether or not a policy returned true.
and_modify_always(item, key, f, option, t_eval, t_store) ==
    LET evaluated == policy_loop(item[2].option.policies, 1, key, item, t_eval)
    IN  [item |-> <<f, [item[2] EXCEPT !.updated_at = t_store]>>,
         invoked |-> 1, evaluated |-> evaluated]

\* and_modify ignoring what the policies returned: it never refreshes.
and_modify_never(item, key, f, option, t_eval, t_store) ==
    LET evaluated == policy_loop(item[2].option.policies, 1, key, item, t_eval)
    IN  [item |-> item, invoked |-> 0, evaluated |-> evaluated]

\* and_modify running the policies of the option passed on this call and binding
\* them to the entry.
and_modify_passed(item, key, f, option, t_eval, t_store) ==
    LET evaluated == policy_loop(option.policies, 1, key, item, t_eval)
    IN  IF Fired(evaluated)
        THEN [item |-> <<f, [item[2] EXCEPT !.updated_at = t_store,
                                            !.option = option]>>,
              invoked |-> 1, evaluated |-> evaluated]
        ELSE [item |-> <<item[1], [item[2] EXCEPT !.option = option]>>,
              invoked |-> 0, evaluated |-> evaluated]

\* and_modify stamping created_at as well when it refreshes.
and_modify_recreate(item, key, f, option, t_eval, t_store) ==
    LET evaluated == policy_loop(item[2].option.policies, 1, key, item, t_eval)
    IN  IF Fired(evaluated)
        THEN [item |-> <<f, [item[2] EXCEPT !.updated_at = t_store,
                                            !.created_at = t_store]>>,
              invoked |-> 1, evaluated |-> evaluated]
        ELSE [item |-> item, invoked |-> 0, evaluated |-> evaluated]

\* and_modify showing the policies the new value and time instead of the stored
\* ones.
and_modify_refresh_first(item, key, f, option, t_eval, t_store) ==
    LET fresh == <<f, [item[2] EXCEPT !.updated_at = t_store]>>
        evaluated == policy_loop(item[2].option.policies, 1, key, fresh, t_eval)
    IN  IF Fired(evaluated)
        THEN [item |-> fresh, invoked |-> 1, evaluated |-> evaluated]
        ELSE [item |-> item, invoked |-> 0, evaluated |-> evaluated]

\* .and_modify(|item| { ... }): the hit path.  t_eval is the clock the policies
\* read, t_store the clock read after f() returned.
and_modify(item, key, f, option, t_eval, t_store) ==
    LET evaluated == policy_loop(item[2].option.policies, 1, key, item, t_eval)
    IN  IF Fired(evaluated)
        THEN [item |-> <<f, [item[2] EXCEPT !.updated_at = t_store]>>,
              invoked |-> 1, evaluated |-> evaluated]
        ELSE [item |-> item, invoked |-> 0, evaluated |-> evaluated]

\* or_insert_with dropping the option it was given.
or_insert_with_no_option(f, option, t_store) ==
    <<f, [created_at |-> t_store, updated_at |-> t_store,
          option |-> CacheOption_new]>>

\* .or_insert_with(|| { ... }): the miss path.
or_insert_with(f, option, t_store) ==
    LET result == f
        created_at == t_store
        cache_context == [created_at |-> created_at, updated_at |-> created_at,
                          option |-> option]
    IN  <<result, cache_context>>

\* An insertion that overwrites every entry of the map.
Insert_all(st, key, item) ==
    [k \in DOMAIN st \cup {key} |-> item]

\* An insertion that drops every other entry of the map.
Insert_only(st, key, item) ==
    [k \in {key} |-> item]

\* The map with key bound to item.
Insert(st, key, item) ==
    [k \in DOMAIN st \cup {key} |-> IF k = key THEN item ELSE st[k]]

\* execute_with_option returning the pair as it was when the call began.
execute_with_option_result_stale(st, key, f, option, t_eval, t_store) ==
    IF key \in DOMAIN st
    THEN LET m == and_modify(st[key], key, f, option, t_eval, t_store)
         IN  [store |-> Insert(st, key, m.item), hit |-> TRUE,
              invoked |-> m.invoked, evaluated |-> m.evaluated, ret |-> st[key]]
    ELSE LET item == or_insert_with(f, option, t_store)
         IN  [store |-> Insert(st, key, item), hit |-> FALSE,
              invoked |-> 1, evaluated |-> <<>>, ret |-> item]

\* execute_with_option running the policies on the entry it has just created.
execute_with_option_result_eval_on_miss(st, key, f, option, t_eval, t_store) ==
    IF key \in DOMAIN st
    THEN LET m == and_modify(st[key], key, f, option, t_eval, t_store)
         IN  [store |-> Insert(st, key, m.item), hit |-> TRUE,
              invoked |-> m.invoked, evaluated |-> m.evaluated, ret |-> m.item]
    ELSE LET item == or_insert_with(f, option, t_store)
             m == and_modify(item, key, f, option, t_store, t_store)
         IN  [store |-> Insert(st, key, m.item), hit |-> FALSE,
              invoked |-> 1 + m.invoked, evaluated |-> m.evaluated,
              ret |-> m.item]

\* CacheUp::execute_with_option as a function of the store and the clock reads.
execute_with_option_result(st, key, f, option, t_eval, t_store) ==
    IF key \in DOMAIN st
    THEN LET m == and_modify(st[key], key, f, option, t_eval, t_store)
         IN  [store |-> Insert(st, key, m.item), hit |-> TRUE,
              invoked |-> m.invoked, evaluated |-> m.evaluated, ret |-> m.item]
    ELSE LET item == or_insert_with(f, option, t_store)
         IN  [store |-> Insert(st, key, item), hit |-> FALSE,
              invoked |-> 1, evaluated |-> <<>>, ret |-> item]

\* The bookkeeping of origin for a call on key.
Origin(key, f, option, r) ==
    [k \in DOMAIN r.store |->
        IF k # key THEN origin[k]
        ELSE IF r.hit
             THEN [origin[k] EXCEPT !.refreshed = origin[k].refreshed \/ r.invoked > 0]
             ELSE [f |-> f, option |-> option, refreshed |-> FALSE]]

\* One call through the public API, taking dt seconds in the producer if it runs.
Call(op, key, f, option, dt) ==
    LET r == execute_with_option_result(store, key, f, option, now, now + dt)
    IN  /\ store' = r.store
        /\ now' = IF r.invoked > 0 THEN now + dt ELSE now
        /\ last' = [op |-> op, key |-> key, f |-> f, option |-> option,
                    hit |-> r.hit, invoked |-> r.invoked,
                    evaluated |-> r.evaluated, ret |-> r.ret]
        /\ origin' = Origin(key, f, option, r)

\* CacheUp::execute_with_option
execute_with_option(key, f, option) ==
    \E dt \in 0..MaxProducerTime :
        /\ now + dt <= MaxTime
        /\ Call("execute_with_option", key, f, option, dt)
        /\ UNCHANGED shared

\* execute binding a policy of its own instead of none.
execute_with_policy(key, f) ==
    \E dt \in 0..MaxProducerTime :
        /\ now + dt <= MaxTime
        /\ Call("execute", key, f, add_policy(CacheOption_new, AlwaysTrue), dt)
        /\ UNCHANGED shared

\* CacheUp::execute
execute(key, f) ==
    \E dt \in 0..MaxProducerTime :
        /\ now + dt <= MaxTime
        /\ Call("execute", key, f, CacheOption_new, dt)
        /\ UNCHANGED shared

\* A second passes between two calls.
Tick ==
    /\ now < MaxTime
    /\ now' = now + 1
    /\ UNCHANGED <<store, last, origin, shared>>

\* The wall clock is set back a second between two calls (an adjustment of the
\* system time): Utc::now() is not monotonic.
ClockStepBack ==
    /\ now > 0
    /\ now' = now - 1
    /\ UNCHANGED <<store, last, origin, shared>>

\* A store with a single owner: nobody shares it.
NoCallers == [lock |-> "free", order |-> <<>>, callers |-> [c \in {} |-> 0]]

\* CacheUp::new, before any call.
Init ==
    /\ store = [k \in {} |-> 0]
    /\ now = 0
    /\ last = [op |-> "none", key |-> 0, f |-> 0, option |-> CacheOption_new,
               hit |-> FALSE, invoked |-> 0, evaluated |-> <<>>, ret |-> <<>>]
    /\ origin = [k \in {} |-> 0]
    /\ shared = NoCallers

Next ==
    \/ \E key \in Keys, f \in Values : execute(key, f)
    \/ \E key \in Keys, f \in Values, option \in Options :
           execute_with_option(key, f, option)
    \/ Tick

Spec == Init /\ [][Next]_vars

\* The callers that bound an entry's age with max_age.
AgeNext ==
    \/ \E key \in AgeKeys, f \in Values : execute(key, f)
    \/ \E key \in AgeKeys, f \in Values, option \in AgeOptions :
           execute_with_option(key, f, option)
    \/ Tick

AgeSpec == Init /\ [][AgeNext]_vars

\* The callers that bind several policies to an entry.
PolicyNext ==
    \/ \E key \in PolicyKeys, f \in Values : execute(key, f)
    \/ \E key \in PolicyKeys, f \in Values, option \in PolicyOptions :
           execute_with_option(key, f, option)
    \/ Tick

PolicySpec == Init /\ [][PolicyNext]_vars

\* One key under a wall clock that may also be set back.
SkewNext ==
    \/ \E key \in PolicyKeys, f \in Values : execute(key, f)
    \/ \E key \in PolicyKeys, f \in Values, option \in Options :
           execute_with_option(key, f, option)
    \/ Tick
    \/ ClockStepBack

SkewSpec == Init /\ [][SkewNext]_vars

----------------------------------------------------------------------------
(* Callers sharing one store.  execute_with_option takes &mut self and returns *)
(* a reference into the store, so a caller holds the store exclusively from    *)
(* the call until it lets go of the returned pair; callers that share the      *)
(* store take turns through a lock.                                            *)

Callers == {"a", "b"}

\* The option sets of the callers that share a store.
SharedOptions == {CacheOption_new, add_policy(CacheOption_new, AlwaysTrue)}

\* The calls a caller may be about to make.
Requests ==
    [pc : {"idle"}, key : Keys, f : Values, option : SharedOptions,
     ret : {<<>>}, invoked : {0}, t_eval : {0}, t_store : {0}]

\* The caller takes the store for itself.
Acquire(c) ==
    /\ shared.lock = "free"
    /\ shared.callers[c].pc = "idle"
    /\ shared' = [shared EXCEPT !.lock = c, !.callers[c].pc = "locked"]
    /\ UNCHANGED <<store, now, last, origin>>

\* The caller, holding the store, makes its call: lookup, policies, producer
\* and update in one step.
Access(c) ==
    LET q == shared.callers[c]
    IN  /\ q.pc = "locked"
        /\ \E dt \in 0..MaxProducerTime :
              /\ now + dt <= MaxTime
              /\ Call("execute_with_option", q.key, q.f, q.option, dt)
              /\ LET r == execute_with_option_result(store, q.key, q.f, q.option,
                                                     now, now + dt)
                 IN  shared' = [shared EXCEPT
                                   !.order = Append(@, c),
                                   !.callers[c] =
                                       [q EXCEPT !.pc = "called",
                                                 !.ret = r.ret,
                                                 !.invoked = r.invoked,
                                                 !.t_eval = now,
                                                 !.t_store = now + dt]]

\* The caller lets go of the returned pair and of the store.
Release(c) ==
    /\ shared.callers[c].pc = "called"
    /\ shared' = [shared EXCEPT !.lock = "free", !.callers[c].pc = "done"]
    /\ UNCHANGED <<store, now, last, origin>>

\* CacheUp::new, shared by callers that have each a call to make.
SharedInit ==
    /\ store = [k \in {} |-> 0]
    /\ now = 0
    /\ last = [op |-> "none", key |-> 0, f |-> 0, option |-> CacheOption_new,
               hit |-> FALSE, invoked |-> 0, evaluated |-> <<>>, ret |-> <<>>]
    /\ origin = [k \in {} |-> 0]
    /\ \E cs \in [Callers -> Requests] :
          shared = [lock |-> "free", order |-> <<>>, callers |-> cs]

SharedNext ==
    \/ \E c \in Callers : Acquire(c)
    \/ \E c \in Callers : Access(c)
    \/ \E c \in Callers : Release(c)
    \/ Tick

SharedSpec == SharedInit /\ [][SharedNext]_vars

----------------------------------------------------------------------------
(* Properties                                                              *)

\* The policies of an evaluation log, in the order they were evaluated.
PoliciesOf(evaluated) == [i \in DOMAIN evaluated |-> evaluated[i].policy]

\* Is the sequence a the beginning of the sequence b?
IsPrefix(a, b) == Len(a) <= Len(b) /\ a = SubSeq(b, 1, Len(a))

\* A step in which a call ran (and was not a repetition that changed nothing).
CallStep == <<store, last>>' # <<store, last>>

OnlyTrue == add_policy(CacheOption_new, AlwaysTrue)
OnlyFalse == add_policy(CacheOption_new, AlwaysFalse)

\* C1: No-policy idempotence.  An entry created with no policies keeps the value
\* of the producer that created it: no later call on its key invokes a producer,
\* and every call on its key returns the creating producer's result.
C1_NoPolicyIdempotence ==
    \A k \in DOMAIN store :
        origin[k].option = CacheOption_new =>
            /\ ~origin[k].refreshed
            /\ store[k][1] = origin[k].f
            /\ last.key = k =>
                  /\ last.ret[1] = origin[k].f
                  /\ last.hit => last.invoked = 0

\* C1 witness: a later execute on a policy-free key with another producer.
C1_Witness ==
    /\ last.op = "execute"
    /\ last.hit
    /\ origin[last.key].option = CacheOption_new
    /\ last.f # origin[last.key].f
    /\ last.ret[1] = origin[last.key].f

\* C2: Always-stale policy.  On an entry created with [always-true], every later
\* call (whatever option it passes) invokes its producer exactly once, stores the
\* result and returns it.
C2_AlwaysStale ==
    (last.hit /\ origin[last.key].option = OnlyTrue) =>
        /\ last.invoked = 1
        /\ store[last.key][1] = last.f
        /\ last.ret[1] = last.f

\* C2 witness: such a call, with a producer other than the creating one and an
\* option other than the bound one.
C2_Witness ==
    /\ last.hit
    /\ origin[last.key].option = OnlyTrue
    /\ last.f # origin[last.key].f
    /\ last.option = OnlyFalse
    /\ last.ret[1] = last.f

\* C3: Always-fresh policy.  An entry created with [always-false] keeps the
\* creating producer's result: later calls invoke no producer and return it.
C3_AlwaysFresh ==
    \A k \in DOMAIN store :
        origin[k].option = OnlyFalse =>
            /\ ~origin[k].refreshed
            /\ store[k][1] = origin[k].f
            /\ last.key = k =>
                  /\ last.ret[1] = origin[k].f
                  /\ last.hit => last.invoked = 0

\* C3 witness: a later call on such a key with another producer, passing
\* [always-true].
C3_Witness ==
    /\ last.hit
    /\ origin[last.key].option = OnlyFalse
    /\ last.f # origin[last.key].f
    /\ last.option = OnlyTrue
    /\ last.ret[1] = origin[last.key].f

\* C4: Fixed policy set.  An entry's policy list is the one supplied on the call
\* that created it and no step changes it; on a hit the policies evaluated are
\* the beginning of the bound list, never the list passed on that call.
C4_FixedPolicySet ==
    [][ /\ \A k \in DOMAIN store :
              /\ k \in DOMAIN store'
              /\ store'[k][2].option = store[k][2].option
        /\ \A k \in DOMAIN store' : store'[k][2].option = origin'[k].option
        /\ last'.hit =>
              IsPrefix(PoliciesOf(last'.evaluated),
                       store'[last'.key][2].option.policies) ]_vars

\* C4 witness: a hit that passed [always-true] on an entry bound to
\* [always-false].
C4_Witness ==
    /\ last.hit
    /\ last.option = OnlyTrue
    /\ store[last.key][2].option = OnlyFalse
    /\ PoliciesOf(last.evaluated) = <<AlwaysFalse>>

\* C5: Key independence.  A call on a key leaves every other key as it was:
\* present or absent as before, and with the same value and context.
C5_KeyIndependence ==
    [][ \A k \in Keys \ {last'.key} :
            /\ k \in DOMAIN store' <=> k \in DOMAIN store
            /\ k \in DOMAIN store => store'[k] = store[k] ]_vars

\* C5 witness: a refresh of one key while the other key holds an older entry
\* with another value and other policies.
C5_Witness ==
    /\ last.hit
    /\ last.invoked = 1
    /\ \E k \in DOMAIN store :
          /\ k # last.key
          /\ store[k][1] # store[last.key][1]
          /\ store[k][2].option # store[last.key][2].option
          /\ store[k][2].updated_at < store[last.key][2].updated_at

\* C6: Maximum-age predicate.  Whenever a max_age(D) policy was evaluated, it
\* returned true exactly when the clock it read minus the entry's updated_at was
\* at least D.
C6_MaxAgePredicate ==
    \A i \in DOMAIN last.evaluated :
        LET e == last.evaluated[i]
        IN  e.policy.kind = "max_age" =>
                (e.result <=> e.at - e.updated_at >= e.policy.arg)

\* C7: Age boundary, zero.  The call that follows the creation of an entry with
\* max_age(0) on the same key invokes the producer and refreshes the entry.
C7_AgeZeroRefreshes ==
    [][ ( /\ last.key \in Keys
          /\ ~last.hit
          /\ last.option = max_age(CacheOption_new, 0)
          /\ last'.hit
          /\ last'.key = last.key )
        => /\ last'.invoked = 1
           /\ store'[last'.key][1] = last'.f
           /\ store'[last'.key][2].updated_at = now' ]_vars

\* C8: Age boundary, large.  A call on an entry created with max_age(LargeAge),
\* made while the clock minus the entry's updated_at is below LargeAge, invokes
\* no producer and leaves the value and updated_at as they were at creation.
C8_LargeAgeKeeps ==
    ( /\ last.hit
      /\ origin[last.key].option = max_age(CacheOption_new, LargeAge)
      /\ last.evaluated[1].at - last.evaluated[1].updated_at < LargeAge )
    => /\ last.invoked = 0
       /\ ~origin[last.key].refreshed
       /\ store[last.key][1] = origin[last.key].f
       /\ store[last.key][2].updated_at = store[last.key][2].created_at

\* C9: Miss path.  A call on an absent key invokes the producer once and inserts
\* an entry with the producer's result, created_at = updated_at = the clock read
\* in the call, and exactly the policy list supplied (none for execute).
C9_MissPath ==
    [][ (last'.key \in Keys /\ last'.key \notin DOMAIN store) =>
            LET k == last'.key
            IN  /\ ~last'.hit
                /\ last'.invoked = 1
                /\ last'.evaluated = <<>>
                /\ DOMAIN store' = DOMAIN store \cup {k}
                /\ store'[k][1] = last'.f
                /\ store'[k][2].created_at = now'
                /\ store'[k][2].updated_at = now'
                /\ store'[k][2].option = last'.option
                /\ last'.op = "execute" => store'[k][2].option.policies = <<>> ]_vars

\* C9 witness: a miss through execute_with_option with a two-policy list, after
\* time has passed.
C9_Witness ==
    /\ ~last.hit
    /\ last.op = "execute_with_option"
    /\ Len(last.option.policies) = 2
    /\ last.key \in DOMAIN store
    /\ store[last.key][2].created_at > 0
    /\ store[last.key][2].option = last.option

\* C10: execute(key, f) does what execute_with_option(key, f, empty policy set)
\* does from the same store and clock: same store, same number of producer
\* invocations, same returned pair.
C10_ExecuteIsEmptyOption ==
    [][ (CallStep /\ last'.op = "execute") =>
            LET r == execute_with_option_result(store, last'.key, last'.f,
                                                CacheOption_new, now, now')
            IN  /\ store' = r.store
                /\ last'.hit = r.hit
                /\ last'.invoked = r.invoked
                /\ last'.ret = r.ret ]_vars

\* C10 witness: an execute that refreshed an entry, and one that created one.
C10_Witness ==
    /\ last.op = "execute"
    /\ last.hit
    /\ last.invoked = 1
    /\ last.ret[1] # origin[last.key].f
    /\ \E k \in DOMAIN store : origin[k].option = CacheOption_new

\* Did some evaluation of the log return true?
AnyTrue(evaluated) == \E i \in DOMAIN evaluated : evaluated[i].result

\* C11: Returned pair.  The pair the most recent call returned is the entry
\* stored for its key: after a refresh the new value and updated_at, otherwise
\* the ones that were there.
C11_ReturnedPair ==
    last.key \in DOMAIN store => last.ret = store[last.key]

\* C11 witness: a call that refreshed returned the new value and a later
\* updated_at.
C11_Witness ==
    /\ last.hit
    /\ last.invoked = 1
    /\ last.ret[1] = last.f
    /\ last.ret[1] # origin[last.key].f
    /\ last.ret[2].updated_at > last.ret[2].created_at
    /\ last.ret = store[last.key]

\* C12: Hit without firing.  A hit on which no bound policy returned true
\* invokes no producer and leaves the entry as it was; an entry's value and
\* updated_at change only in a hit on its key in which a bound policy returned
\* true.
C12_HitWithoutFiring ==
    [][ /\ (CallStep /\ last'.hit /\ ~AnyTrue(last'.evaluated)) =>
              /\ last'.invoked = 0
              /\ store'[last'.key] = store[last'.key]
        /\ \A k \in DOMAIN store :
              ( \/ store'[k][1] # store[k][1]
                \/ store'[k][2].updated_at # store[k][2].updated_at )
              => /\ last'.key = k
                 /\ last'.hit
                 /\ AnyTrue(last'.evaluated)
                 /\ store'[k][2].created_at = store[k][2].created_at ]_vars

\* C12 witness: a hit whose one bound policy returned false, made with another
\* producer after time has passed.
C12_Witness ==
    /\ last.hit
    /\ Len(last.evaluated) = 1
    /\ ~AnyTrue(last.evaluated)
    /\ last.invoked = 0
    /\ last.f # store[last.key][1]
    /\ now > store[last.key][2].updated_at

\* The position of the first always-true policy of a list, 0 if it has none.
FirstTrue(policies) ==
    IF \E i \in DOMAIN policies : policies[i] = AlwaysTrue
    THEN CHOOSE i \in DOMAIN policies :
             /\ policies[i] = AlwaysTrue
             /\ \A j \in 1..(i - 1) : policies[j] # AlwaysTrue
    ELSE 0

\* C13: Short-circuit refresh.  A hit evaluates the bound policies in list
\* order, each only after all before it returned false, and stops at the first
\* that returns true: then the producer runs exactly once, its result replaces
\* the value and updated_at is the clock read then.  No call runs the producer
\* more than once.
C13_ShortCircuit ==
    [][ (CallStep /\ last'.hit) =>
            LET k == last'.key
                ps == store[k][2].option.policies
                ev == last'.evaluated
                n == FirstTrue(ps)
            IN  /\ IsPrefix(PoliciesOf(ev), ps)
                /\ \A i \in 1..(Len(ev) - 1) : ~ev[i].result
                /\ n = 0 => /\ Len(ev) = Len(ps)
                            /\ last'.invoked = 0
                /\ n > 0 => /\ Len(ev) = n
                            /\ ev[n].result
                            /\ last'.invoked = 1
                            /\ store'[k][1] = last'.f
                            /\ store'[k][2].updated_at = now'
                /\ last'.invoked <= 1 ]_vars

\* C13 witness: a hit on an entry bound to [false, true, true] evaluated two
\* policies and refreshed once, after the clock moved.
C13_Witness ==
    /\ last.hit
    /\ Len(store[last.key][2].option.policies) = 3
    /\ PoliciesOf(last.evaluated) = <<AlwaysFalse, AlwaysTrue>>
    /\ last.invoked = 1
    /\ store[last.key][1] = last.f
    /\ store[last.key][2].updated_at > store[last.key][2].created_at

\* C14: Timestamp order.  In every reachable state every entry has
\* created_at <= updated_at, both being wall-clock values read at creation and
\* at each refresh.
C14_TimestampOrder ==
    \A k \in DOMAIN store : store[k][2].created_at <= store[k][2].updated_at

\* A step in which a call ran on a key that had no entry.
MissStep == last'.key \in Keys /\ last'.key \notin DOMAIN store

\* C15: created_at is write-once.  Once a key has an entry, no step changes the
\* entry's created_at: not a hit or a refresh of the key, not a call on another
\* key.
C15_CreatedAtWriteOnce ==
    [][ \A k \in DOMAIN store :
            /\ k \in DOMAIN store'
            /\ store'[k][2].created_at = store[k][2].created_at ]_vars

\* C15 witness: an entry refreshed after its creation, seen after a call on the
\* other key.
C15_Witness ==
    \E k \in DOMAIN store :
        /\ k # last.key
        /\ last.key \in DOMAIN store
        /\ origin[k].refreshed
        /\ store[k][2].created_at < store[k][2].updated_at

\* C16: Entries are never removed and never duplicated.  No step removes a key;
\* a miss adds exactly the accessed key; every other step leaves the set of keys
\* as it was.
C16_KeysOnlyGrow ==
    [][ /\ DOMAIN store \subseteq DOMAIN store'
        /\ MissStep =>
              /\ DOMAIN store' = DOMAIN store \cup {last'.key}
              /\ Cardinality(DOMAIN store') = Cardinality(DOMAIN store) + 1
        /\ ~MissStep => DOMAIN store' = DOMAIN store ]_vars

\* C16 witness: both keys present after a miss on the second.
C16_Witness ==
    /\ ~last.hit
    /\ last.key \in Keys
    /\ DOMAIN store = Keys
    /\ \E k \in DOMAIN store : k # last.key /\ origin[k].refreshed

\* C17: Policies are not evaluated on the creating call.  A miss evaluates no
\* policy and runs the producer once, even when it binds an always-true policy;
\* the hit that follows on the same key evaluates the first bound policy.
C17_NoEvaluationOnMiss ==
    [][ /\ MissStep =>
              /\ last'.evaluated = <<>>
              /\ last'.invoked = 1
              /\ store'[last'.key][1] = last'.f
              /\ store'[last'.key][2].option = last'.option
        /\ ( /\ last.key \in Keys
             /\ ~last.hit
             /\ last.option.policies # <<>>
             /\ last'.hit
             /\ last'.key = last.key )
           => /\ last'.evaluated # <<>>
              /\ last'.evaluated[1].policy = last.option.policies[1] ]_vars

\* C17 witness: a miss that bound [always-true].
C17_Witness ==
    /\ ~last.hit
    /\ last.key \in DOMAIN store
    /\ last.option = OnlyTrue
    /\ store[last.key][2].option = OnlyTrue
    /\ last.invoked = 1
    /\ last.evaluated = <<>>

\* C18: Policy arguments.  Every policy evaluated in a hit on key K is one bound
\* to K's entry and received K, the value stored for K when the call began and
\* K's updated_at of that moment.
C18_PolicyArguments ==
    [][ (CallStep /\ last'.hit) =>
            LET k == last'.key
                ev == last'.evaluated
            IN  /\ IsPrefix(PoliciesOf(ev), store[k][2].option.policies)
                /\ \A i \in DOMAIN ev :
                      /\ ev[i].key = k
                      /\ ev[i].value = store[k][1]
                      /\ ev[i].updated_at = store[k][2].updated_at ]_vars

\* C18 witness: a refresh whose policy saw the old value and the old updated_at,
\* while the other key holds another value.
C18_Witness ==
    /\ last.hit
    /\ last.invoked = 1
    /\ last.evaluated[1].key = last.key
    /\ last.evaluated[1].value # store[last.key][1]
    /\ last.evaluated[1].updated_at < store[last.key][2].updated_at
    /\ \E k \in DOMAIN store :
          /\ k # last.key
          /\ store[k][1] # last.evaluated[1].value
          /\ store[k][2].option # store[last.key][2].option

\* The calls of the callers in order, one after the other on a store of a single
\* owner, each with the clock reads it had: the store after the first n calls.
RECURSIVE Sequential(_, _)
Sequential(order, n) ==
    IF n = 0 THEN [store |-> [k \in {} |-> 0], ret |-> <<>>, invoked |-> 0]
    ELSE LET q == shared.callers[order[n]]
             before == Sequential(order, n - 1)
             r == execute_with_option_result(before.store, q.key, q.f, q.option,
                                             q.t_eval, q.t_store)
         IN  [store |-> r.store, ret |-> r.ret, invoked |-> r.invoked]

====
